---- MODULE Spec2Model ----
(***************************************************************************)
(* The WireGuardControl view (src/components/WireGuardControl.tsx) and the *)
(* transport client it uses (src/services/wgApi.ts), as a state machine.   *)
(* One action per event handler; a handler runs to completion (one UI      *)
(* event loop), so each action is one atomic step.  The WebSocket objects  *)
(* follow the platform's readyState machine: CONNECTING -> OPEN ->         *)
(* CLOSING -> CLOSED, message events are delivered only while OPEN, and a  *)
(* failed connection dispatches error and then close in one task.          *)
(***************************************************************************)
EXTENDS Integers, Sequences, FiniteSets, Bags, TLC

\* ------------------------------------------------------------------ bounds
\* How often the user presses "retry" (manual reconnect).
MaxManualReconnects == 1
\* How often the baseUrl prop changes while the view is mounted.
MaxUrlChanges == 1

\* -------------------------------------------------------- program constants
PROFILES == {"tw", "jp", "hk", "th"}
ReconnectDelay == 5000
PingInterval == 25000

\* ------------------------------------------------------------- input sets
Ifaces == {"wg0", "ss"}
Urls == {"http://a", "http://b"}
NoUrl == "none"
\* JavaScript's undefined for an optional field.
NoProfile == "undefined"
\* Profiles a pushed payload may carry: two known ones, one the client does
\* not know, and none.
WireProfiles == {"jp", "hk", "us", NoProfile}
\* Options of the selector the user picks from.
SelectProfiles == PROFILES
NoError == "null"
FetchError == "t.control.fetchError"
ApplyError == "t.control.applyError"
\* An optional field of an ApplyRequest: left out, or given with a value.
Omitted == {}
Given(v) == {v}

\* ------------------------------------------------------------ data shapes
\* StatusResponse as the view holds it.  kind "null" is the initial null,
\* "undefined" a stored undefined, "object" an object without the tunnel
\* records, "ok" a well-formed StatusResponse.
Tunnels(w, s, p) == [wg0 |-> [active |-> w], ss |-> [active |-> s, profile |-> p]]
Shape(k) == [kind |-> k] @@ Tunnels(FALSE, FALSE, NoProfile)
Null == Shape("null")
Undefined == Shape("undefined")
EmptyObject == Shape("object")
StatusOf(w, s, p) == [kind |-> "ok"] @@ Tunnels(w, s, p)
StatusPayloads == {StatusOf(w, s, p) : w \in BOOLEAN, s \in BOOLEAN, p \in WireProfiles}
\* !status
FalsyNever(st) == FALSE
Falsy(st) == st.kind \in {"null", "undefined"}

\* Text frames the server may push: undecodable text, a JSON message with a
\* tag and a data field.
Messages ==
    {[json |-> FALSE, type |-> "none", data |-> Undefined]}
    \cup {[json |-> TRUE, type |-> "pong", data |-> Undefined]}
    \cup {[json |-> TRUE, type |-> "status", data |-> d] :
            d \in StatusPayloads \cup {Undefined, EmptyObject}}

\* A WebSocket object: its readyState (FAILING is CLOSED with the error event
\* dispatched and the close event still to run in the same task), the url it
\* was created for, whether its keep-alive interval is set, and whether a
\* liveness token was sent on it.
\* wsRef.current = null
NoSocket == [state |-> "NONE", url |-> NoUrl, ping |-> FALSE, sent |-> FALSE]
NewSocket(url) == [state |-> "CONNECTING", url |-> url, ping |-> FALSE, sent |-> FALSE]

VARIABLES
    status,            \* useState<StatusResponse | null>
    isInitialLoading,  \* useState(true)
    isSubmitting,      \* useState(false)
    error,             \* useState<string | null>
    localSsProfile,    \* useState<Profile>('tw')
    wsRef,             \* useRef<WebSocket | null>: the WebSocket it points to
    old,               \* bag of the WebSockets wsRef no longer points to whose
                       \* close event has not been dispatched yet
    timers,            \* bag of pending setTimeout(connectWebSocket, delay)
    baseUrl,           \* the baseUrl prop of the current render
    mounted,           \* "init" | "mounted" | "unmounted" | "crashed"
    inflight,          \* apply requests sent and not yet resolved
    unconfirmed,       \* tunnels toggled locally since the status was last replaced
    staged,            \* the user picked a profile and has not applied it yet
    manualReconnects,  \* presses of "retry" so far
    urlChanges         \* baseUrl changes so far

view == <<status, isInitialLoading, isSubmitting, error, localSsProfile>>
vars == <<status, isInitialLoading, isSubmitting, error, localSsProfile,
          wsRef, old, timers, baseUrl, mounted, inflight, unconfirmed, staged,
          manualReconnects, urlChanges>>

Init ==
    /\ status = Null
    /\ isInitialLoading = TRUE
    /\ isSubmitting = FALSE
    /\ error = NoError
    /\ localSsProfile = "tw"
    /\ wsRef = NoSocket
    /\ old = EmptyBag
    /\ timers = EmptyBag
    /\ baseUrl = "http://a"
    /\ mounted = "init"
    /\ inflight = {}
    /\ unconfirmed = {}
    /\ staged = FALSE
    /\ manualReconnects = 0
    /\ urlChanges = 0

\* State setters act only on a mounted component; React drops them afterwards.
LiveAlways == TRUE
Live == mounted = "mounted"

\* The WebSocket objects with a close event still to come or referenced by
\* wsRef: ref tells whether it is the one wsRef points to.
Sockets ==
    {[ref |-> TRUE, w |-> wsRef]} \cup {[ref |-> FALSE, w |-> o] : o \in BagToSet(old)}

\* An error event has been dispatched on a connection and its close event,
\* which the platform dispatches in the same task, has not run yet.
MidTask == \E c \in Sockets : c.w.state = "FAILING"

\* Socket c becomes w2; an unreferenced socket that is CLOSED is garbage.
Becomes(c, w2) ==
    IF c.ref
    THEN /\ wsRef' = w2
         /\ old' = old
    ELSE /\ wsRef' = wsRef
         /\ old' = IF w2.state = "CLOSED" THEN old (-) SetToBag({c.w})
                   ELSE (old (-) SetToBag({c.w})) (+) SetToBag({w2})

\* --------------------------------------------------------------- channel
\* WebSocket.close(): starts the closing handshake of a connection that is
\* CONNECTING or OPEN, and does nothing otherwise.
CloseNoop(w) == w
CloseOnlyOpen(w) ==
    IF w.state = "OPEN" THEN [w EXCEPT !.state = "CLOSING"] ELSE w
Close(w) ==
    IF w.state \in {"CONNECTING", "OPEN"} THEN [w EXCEPT !.state = "CLOSING"] ELSE w

\* The sockets left behind when wsRef moves off w: one that is CLOSED (or
\* null) is garbage, any other still has its close event to come.
Superseded(w) ==
    IF w.state \in {"NONE", "CLOSED"} THEN old ELSE old (+) SetToBag({w})

\* connectWebSocket of the render whose baseUrl is url.
ConnectWebSocketIfNone(url) ==
    IF wsRef.state \in {"CONNECTING", "OPEN"}
    THEN UNCHANGED <<wsRef, old>>
    ELSE /\ old' = Superseded(wsRef)
         /\ wsRef' = NewSocket(url)
ConnectWebSocket(url) ==
    /\ old' = Superseded(Close(wsRef))
    /\ wsRef' = NewSocket(url)

\* useEffect body on mount.
Mount ==
    /\ mounted = "init"
    /\ mounted' = "mounted"
    /\ ConnectWebSocket(baseUrl)
    /\ UNCHANGED <<view, timers, baseUrl, inflight, unconfirmed, staged,
                   manualReconnects, urlChanges>>

\* wsRef.current?.close() of the effect's cleanup, then the effect again with
\* the new baseUrl (the dependency of the effect changed).
UrlChange(u) ==
    /\ Live
    /\ ~MidTask
    /\ u # baseUrl
    /\ urlChanges < MaxUrlChanges
    /\ urlChanges' = urlChanges + 1
    /\ baseUrl' = u
    /\ ConnectWebSocket(u)
    /\ UNCHANGED <<view, timers, mounted, inflight, unconfirmed, staged, manualReconnects>>

\* The effect's cleanup when the view is torn down; the component's state is
\* discarded with it.
Unmount ==
    /\ Live
    /\ ~MidTask
    /\ mounted' = "unmounted"
    /\ wsRef' = Close(wsRef)
    /\ status' = Null
    /\ isInitialLoading' = TRUE
    /\ isSubmitting' = FALSE
    /\ error' = NoError
    /\ localSsProfile' = "tw"
    /\ unconfirmed' = {}
    /\ staged' = FALSE
    /\ UNCHANGED <<old, timers, baseUrl, inflight, manualReconnects, urlChanges>>

\* The view shows the spinner instead of the controls.
Spinner == isInitialLoading /\ Falsy(status)

\* The "retry" button, rendered inside the error banner.
ManualReconnect ==
    /\ Live
    /\ ~MidTask
    /\ ~Spinner
    /\ error # NoError
    /\ manualReconnects < MaxManualReconnects
    /\ manualReconnects' = manualReconnects + 1
    /\ ConnectWebSocket(baseUrl)
    /\ UNCHANGED <<view, timers, baseUrl, mounted, inflight, unconfirmed, staged, urlChanges>>

\* setTimeout(connectWebSocket, 5000) of ws.onclose, for the connection's url.
ReconnectTimerDoubled(url) == [url |-> url, delay |-> 2 * ReconnectDelay]
ReconnectTimer(url) == [url |-> url, delay |-> ReconnectDelay]

\* ws.onclose: one more pending timer; nothing is cancelled or replaced.
ScheduleNever(tm, url) == tm
Schedule(tm, url) == tm (+) SetToBag({ReconnectTimer(url)})

\* A pending reconnect timer fires: connectWebSocket of the render that
\* created the connection whose close scheduled it.
TimerFire(t) ==
    /\ ~MidTask
    /\ BagIn(t, timers)
    /\ timers' = timers (-) SetToBag({t})
    /\ ConnectWebSocket(t.url)
    /\ UNCHANGED <<view, baseUrl, mounted, inflight, unconfirmed, staged,
                   manualReconnects, urlChanges>>

\* const pingInterval = setInterval(..., 25000) of ws.onopen
SetIntervalNever(w) == w
SetInterval(w) == [w EXCEPT !.ping = TRUE]

\* setError(null) of ws.onopen, whatever the error e was.
ErrorAfterOpenKept(e) == e
ErrorAfterOpen(e) == NoError

\* ws.onopen
OnOpen(c) ==
    /\ ~MidTask
    /\ c.w.state = "CONNECTING"
    /\ Becomes(c, SetInterval([c.w EXCEPT !.state = "OPEN"]))
    /\ error' = IF Live THEN ErrorAfterOpen(error) ELSE error
    /\ UNCHANGED <<status, isInitialLoading, isSubmitting, localSsProfile, timers,
                   baseUrl, mounted, inflight, unconfirmed, staged, manualReconnects, urlChanges>>

\* ws.readyState === WebSocket.OPEN
IsOpenAlways(w) == TRUE
IsOpen(w) == w.state = "OPEN"

\* The keep-alive interval of a connection fires: ws.send('ping') if the
\* connection is open.
PingFire(c) ==
    /\ ~MidTask
    /\ c.w.ping
    /\ Becomes(c, [c.w EXCEPT !.sent = @ \/ IsOpen(c.w)])
    /\ UNCHANGED <<view, timers, baseUrl, mounted, inflight, unconfirmed, staged,
                   manualReconnects, urlChanges>>

\* ws.onerror: the connection could not be established or broke.  Its close
\* event follows in the same task.
OnErrorReconnects(c) ==
    /\ ~MidTask
    /\ c.w.state \in {"CONNECTING", "OPEN", "CLOSING"}
    /\ Becomes(c, [c.w EXCEPT !.state = "FAILING"])
    /\ error' = IF Live THEN FetchError ELSE error
    /\ isInitialLoading' = IF Live THEN FALSE ELSE isInitialLoading
    /\ timers' = Schedule(timers, c.w.url)
    /\ UNCHANGED <<status, isSubmitting, localSsProfile,
                   baseUrl, mounted, inflight, unconfirmed, staged, manualReconnects, urlChanges>>
OnError(c) ==
    /\ ~MidTask
    /\ c.w.state \in {"CONNECTING", "OPEN", "CLOSING"}
    /\ Becomes(c, [c.w EXCEPT !.state = "FAILING"])
    /\ error' = IF Live THEN FetchError ELSE error
    /\ isInitialLoading' = IF Live THEN FALSE ELSE isInitialLoading
    /\ UNCHANGED <<status, isSubmitting, localSsProfile, timers,
                   baseUrl, mounted, inflight, unconfirmed, staged, manualReconnects, urlChanges>>

\* The close event of connection c: ws.onclose schedules the reconnect and
\* the listener added in ws.onopen clears the keep-alive interval.
CloseEvent(c) ==
    /\ Becomes(c, [c.w EXCEPT !.state = "CLOSED", !.ping = FALSE])
    /\ timers' = Schedule(timers, c.w.url)
    /\ UNCHANGED <<view, baseUrl, mounted, inflight, unconfirmed, staged,
                   manualReconnects, urlChanges>>

\* The close event that ends a closing handshake or a failure.
DispatchClose(c) ==
    /\ c.w.state \in {"CLOSING", "FAILING"}
    /\ MidTask => c.w.state = "FAILING"
    /\ CloseEvent(c)

\* The server closes an open connection cleanly.
ServerClose(c) ==
    /\ ~MidTask
    /\ c.w.state = "OPEN"
    /\ CloseEvent(c)

\* ------------------------------------------------------- transport client
\* What fetch and the response body can be: no response at all, or an HTTP
\* status with a body that is a StatusResponse, an error object with or
\* without detail, text that is not JSON, or the JSON value null.
StatusCodes == {200, 500}
Bodies == {"status", "detail", "nodetail", "notjson", "null"}
\* response.ok
Ok(code) == code \in 200 .. 299
Responses ==
    {[net |-> FALSE, code |-> 0, body |-> "notjson"]}
    \cup {[net |-> TRUE, code |-> k, body |-> b] :
            k \in {k \in StatusCodes : Ok(k)}, b \in {"status", "notjson"}}
    \cup {[net |-> TRUE, code |-> k, body |-> b] :
            k \in {k \in StatusCodes : ~Ok(k)}, b \in Bodies \ {"status"}}

\* The message of the Error thrown for a response that is not ok: errorData
\* is the decoded body, or {} when response.json() rejects; reading .detail
\* of a body that decodes to null throws a TypeError instead.
ErrorMessage(resp) ==
    IF resp.body = "null" THEN "Cannot read properties of null (reading 'detail')"
    ELSE IF resp.body = "detail" THEN "detail"
    ELSE "API request failed with status " \o ToString(resp.code)

\* WireGuardService.request: whether the call returns or throws, and the
\* message of the Error it throws.
RequestIgnoresStatus(resp) ==
    IF ~resp.net THEN [ok |-> FALSE, message |-> "Failed to fetch"]
    ELSE IF resp.body = "notjson" THEN [ok |-> FALSE, message |-> "Unexpected token"]
    ELSE [ok |-> TRUE, message |-> ""]
Request(resp) ==
    IF ~resp.net THEN [ok |-> FALSE, message |-> "Failed to fetch"]
    ELSE IF ~Ok(resp.code)
         THEN [ok |-> FALSE, message |-> ErrorMessage(resp)]
    ELSE IF resp.body = "notjson" THEN [ok |-> FALSE, message |-> "Unexpected token"]
    ELSE [ok |-> TRUE, message |-> ""]

\* ApplyRequest bodies.
ToggleIntentBoth(iface, newState) ==
    [wg0_enabled |-> Given(newState), ss_enabled |-> Given(newState), ss_profile |-> Omitted]
ToggleIntent(iface, newState) ==
    [wg0_enabled |-> IF iface = "wg0" THEN Given(newState) ELSE Omitted,
     ss_enabled |-> IF iface = "ss" THEN Given(newState) ELSE Omitted,
     ss_profile |-> Omitted]
ApplyIntentConfirmed(st, profile) ==
    [wg0_enabled |-> Given(st.wg0.active), ss_enabled |-> Given(st.ss.active),
     ss_profile |-> Given(st.ss.profile)]
ApplyIntent(st, profile) ==
    [wg0_enabled |-> Given(st.wg0.active), ss_enabled |-> Given(st.ss.active),
     ss_profile |-> Given(profile)]

\* ------------------------------------------------- synchronization controller
\* setStatus(prev => ({...prev, [iface]: {...prev[iface], active: newState}}))
SetActiveLater(st, iface, newState) == st
SetActive(st, iface, newState) == [st EXCEPT ![iface].active = newState]

\* disabled={isSubmitting} of the two toggle buttons.
ToggleDisabledNever == FALSE
ToggleDisabled == isSubmitting

\* toggleInterface(iface), from the toggle button (disabled while submitting).
Toggle(iface) ==
    /\ Live
    /\ ~MidTask
    /\ ~Spinner
    /\ ~ToggleDisabled
    /\ IF Falsy(status)
       THEN UNCHANGED <<status, isSubmitting, inflight, unconfirmed>>
       ELSE /\ status' = SetActive(status, iface, ~status[iface].active)
            /\ isSubmitting' = TRUE
            /\ inflight' = inflight \cup
                 {[kind |-> "toggle", intent |-> ToggleIntent(iface, ~status[iface].active)]}
            /\ unconfirmed' = unconfirmed \cup {iface}
    /\ UNCHANGED <<isInitialLoading, error, localSsProfile, wsRef, old, timers, baseUrl,
                   mounted, staged, manualReconnects, urlChanges>>

\* disabled={isSubmitting} of the apply button.
ApplyDisabledNever == FALSE
ApplyDisabled == isSubmitting

\* handleApply, from the apply button (disabled while submitting).
HandleApply ==
    /\ Live
    /\ ~MidTask
    /\ ~Spinner
    /\ ~ApplyDisabled
    /\ IF Falsy(status)
       THEN UNCHANGED <<isSubmitting, error, inflight, staged>>
       ELSE /\ isSubmitting' = TRUE
            /\ error' = NoError
            /\ inflight' = inflight \cup
                 {[kind |-> "apply", intent |-> ApplyIntent(status, localSsProfile)]}
            /\ staged' = FALSE
    /\ UNCHANGED <<status, isInitialLoading, localSsProfile, wsRef, old, timers, baseUrl,
                   mounted, unconfirmed, manualReconnects, urlChanges>>

\* e.target.value as Profile, for the option p the user picked.
TargetValueKept(p) == localSsProfile
TargetValue(p) == p

\* onChange of the profile selector (disabled while submitting).
SelectProfile(p) ==
    /\ Live
    /\ ~MidTask
    /\ ~Spinner
    /\ ~isSubmitting
    /\ p # localSsProfile
    /\ localSsProfile' = TargetValue(p)
    /\ staged' = TRUE
    /\ UNCHANGED <<status, isInitialLoading, isSubmitting, error, wsRef, old, timers, baseUrl,
                   mounted, inflight, unconfirmed, manualReconnects, urlChanges>>

\* The message of the catch block of toggleInterface / handleApply.
CaughtNothing(kind, message) == NoError
Caught(kind, message) ==
    IF kind = "apply" /\ message = "" THEN ApplyError ELSE message

\* The awaited apply call of request r settles with response resp: the catch
\* block on a throw, then the finally block.  The returned status is dropped.
ResolveWithoutFinally(r, resp) ==
    /\ ~MidTask
    /\ r \in inflight
    /\ inflight' = inflight \ {r}
    /\ IF Live
       THEN /\ isSubmitting' = IF Request(resp).ok THEN FALSE ELSE isSubmitting
            /\ error' = IF Request(resp).ok THEN error
                        ELSE Caught(r.kind, Request(resp).message)
       ELSE UNCHANGED <<isSubmitting, error>>
    /\ UNCHANGED <<status, isInitialLoading, localSsProfile, wsRef, old, timers, baseUrl,
                   mounted, unconfirmed, staged, manualReconnects, urlChanges>>
Resolve(r, resp) ==
    /\ ~MidTask
    /\ r \in inflight
    /\ inflight' = inflight \ {r}
    /\ IF Live
       THEN /\ isSubmitting' = FALSE
            /\ error' = IF Request(resp).ok THEN error
                        ELSE Caught(r.kind, Request(resp).message)
       ELSE UNCHANGED <<isSubmitting, error>>
    /\ UNCHANGED <<status, isInitialLoading, localSsProfile, wsRef, old, timers, baseUrl,
                   mounted, unconfirmed, staged, manualReconnects, urlChanges>>

\* --------------------------------------------------------- ws.onmessage
\* PROFILES.includes(profile) guarded by the truthiness of profile.
KnownAny(profile) == profile # NoProfile
Known(profile) == profile # NoProfile /\ profile \in PROFILES

\* msg.type === 'status'
IsStatusAny(m) == TRUE
IsStatus(m) == m.type = "status"

\* The value setLocalSsProfile leaves after a status message with payload d.
NextLocalProfile(d) ==
    IF d.kind = "ok" /\ Known(d.ss.profile) THEN d.ss.profile ELSE localSsProfile

\* ws.onmessage for text frame m on connection c.  JSON.parse and the reads
\* of msg.data.ss throw inside the try block; what was set before stays set.
\* A stored object without the tunnel records makes the next render throw,
\* which tears the view down (the effect's cleanup closes the channel).
OnMessage(c, m) ==
    /\ ~MidTask
    /\ c.w.state = "OPEN"
    /\ IF ~Live \/ ~m.json \/ ~IsStatus(m)
       THEN UNCHANGED <<status, localSsProfile, isInitialLoading, unconfirmed, mounted,
                        wsRef, old>>
       ELSE /\ status' = m.data
            /\ localSsProfile' = NextLocalProfile(m.data)
            /\ isInitialLoading' = IF m.data.kind = "ok" THEN FALSE ELSE isInitialLoading
            /\ unconfirmed' = {}
            /\ mounted' = IF m.data.kind = "object" THEN "crashed" ELSE mounted
            /\ wsRef' = IF m.data.kind = "object" THEN Close(wsRef) ELSE wsRef
            /\ old' = old
    /\ UNCHANGED <<isSubmitting, error, timers, baseUrl, inflight, staged,
                   manualReconnects, urlChanges>>

\* ------------------------------------------------------------ specification
\* The timers and the platform's events, which drive the channel whatever the
\* user does.
ChannelEvents ==
    \/ \E t \in BagToSet(timers) : TimerFire(t)
    \/ \E c \in Sockets : OnOpen(c)
    \/ \E c \in Sockets : OnError(c)
    \/ \E c \in Sockets : DispatchClose(c)
    \/ \E c \in Sockets : ServerClose(c)

\* The synchronization controller: every push message and every user action
\* on the tunnels, over a channel that the server and the timers drive.
Next ==
    \/ Mount
    \/ Unmount
    \/ ChannelEvents
    \/ \E c \in Sockets, m \in Messages : OnMessage(c, m)
    \/ \E i \in Ifaces : Toggle(i)
    \/ HandleApply
    \/ \E p \in SelectProfiles : SelectProfile(p)
    \/ \E r \in inflight, resp \in Responses : Resolve(r, resp)

Spec == Init /\ [][Next]_vars

\* The live status channel: user reconnects and baseUrl changes on top of the
\* channel events, with one tunnel toggled and a push message of each kind.
ChannelMessages ==
    {m \in Messages : m.type = "status" => m.data \in {StatusOf(TRUE, FALSE, NoProfile), EmptyObject}}

\* A request that gets no response and one that succeeds.
ChannelResponses == {resp \in Responses : ~resp.net \/ resp.body = "status"}

ChannelNext ==
    \/ Mount
    \/ Unmount
    \/ ChannelEvents
    \/ \E u \in Urls : UrlChange(u)
    \/ ManualReconnect
    \/ \E c \in Sockets, m \in ChannelMessages : OnMessage(c, m)
    \/ Toggle("wg0")
    \/ \E r \in inflight, resp \in ChannelResponses : Resolve(r, resp)

ChannelSpec == Init /\ [][ChannelNext]_vars

\* The keep-alive: the interval of every connection on top of the channel
\* with user reconnects and baseUrl changes.
KeepAliveNext ==
    \/ Mount
    \/ Unmount
    \/ ChannelEvents
    \/ \E u \in Urls : UrlChange(u)
    \/ ManualReconnect
    \/ \E c \in Sockets : PingFire(c)
    \/ \E c \in Sockets, m \in ChannelMessages : OnMessage(c, m)

KeepAliveSpec == Init /\ [][KeepAliveNext]_vars

\* What the runtime guarantees: a due timer fires, a connection that is
\* closing or has failed gets its close event, and an awaited request
\* settles.  Nothing obliges the server to push a message.
Fairness ==
    /\ WF_vars(\E t \in BagToSet(timers) : TimerFire(t))
    /\ WF_vars(\E c \in Sockets : DispatchClose(c))
    /\ WF_vars(\E r \in inflight, resp \in Responses : Resolve(r, resp))

LiveSpec == Spec /\ Fairness
ChannelLiveSpec == ChannelSpec /\ Fairness

\* A set interval keeps firing: its callback runs once every PingInterval
\* milliseconds for as long as it is not cleared.
KeepAliveFairness == WF_vars(\E c \in Sockets : PingFire(c))
KeepAliveLiveSpec == KeepAliveSpec /\ Fairness /\ KeepAliveFairness

\* ------------------------------------------------------------------ claims
ValidSnapshot(m) == m.json /\ m.type = "status" /\ m.data.kind = "ok"

\* C1: a toggle made while the status is present negates the tunnel's local
\* active flag in the step of the click itself, with its apply request still
\* unresolved.
C1_OptimisticToggle ==
    [][\A i \in Ifaces :
         (Toggle(i) /\ ~Falsy(status)) =>
            /\ status'[i].active = ~status[i].active
            /\ \E r \in inflight' : r.kind = "toggle" /\ r.intent = ToggleIntent(i, status'[i].active)]_vars

C1_Witness ==
    /\ Live
    /\ status.kind = "ok"
    /\ status.ss.active
    /\ inflight = {[kind |-> "toggle", intent |-> ToggleIntent("ss", TRUE)]}

\* C2: every optimistic toggle is eventually confirmed or overwritten by a
\* snapshot, or reverted; the flag never stays unconfirmed for ever.
C2_TerminalOutcome ==
    \A i \in Ifaces : (i \in unconfirmed) ~> (i \notin unconfirmed)

\* C3: when the apply request of a toggle or of applyAll fails, the error
\* is set (a non-empty message) once the request has resolved.
C3_FailureVisible ==
    [][\A r \in inflight, resp \in Responses :
         (Live /\ Resolve(r, resp) /\ ~Request(resp).ok) =>
            /\ error' \notin {NoError, ""}
            /\ r \notin inflight']_vars

C3_Witness ==
    /\ Live
    /\ inflight = {}
    /\ ~isSubmitting
    /\ error = "Failed to fetch"

\* C4: with no user action in between, the status held is the payload of the
\* latest valid status snapshot: a valid snapshot replaces it, and any other
\* push message leaves it as it is (absent, if none was received yet).
C4_LatestValidSnapshot ==
    [][\A c \in Sockets, m \in Messages :
         (Live /\ OnMessage(c, m)) =>
            IF ValidSnapshot(m) THEN status' = m.data
            ELSE status' = status \/ (Falsy(status) /\ Falsy(status'))]_vars

\* C5: once a newer connection is open, a message delivered on a connection
\* that wsRef no longer points to changes neither the status nor the pending
\* profile selection.
C5_NoStaleSnapshot ==
    [][\A c \in Sockets, m \in Messages :
         (OnMessage(c, m) /\ ~c.ref /\ wsRef.state = "OPEN") =>
            UNCHANGED <<status, localSsProfile>>]_vars

C5_Witness ==
    /\ Live
    /\ wsRef.state = "OPEN"
    /\ status.kind = "ok"
    /\ \E o \in BagToSet(old) : o.state = "CLOSING" /\ o.ping

\* C6: a pushed status snapshot sets the pending profile selection to its
\* secure-tunnel profile when that is one of the four known profiles, and
\* leaves it unchanged otherwise.
C6_PendingFollowsKnownProfile ==
    [][\A c \in Sockets, m \in Messages :
         (Live /\ OnMessage(c, m)) =>
            localSsProfile' =
               IF ValidSnapshot(m) /\ m.data.ss.profile \in PROFILES
               THEN m.data.ss.profile ELSE localSsProfile]_vars

C6_Witness ==
    /\ Live
    /\ status.kind = "ok"
    /\ status.ss.profile = "hk"
    /\ localSsProfile = "hk"

\* C7: a profile the user picked and has not applied yet is not overwritten
\* by a pushed snapshot.
C7_StagedProfileKept ==
    [][\A c \in Sockets, m \in Messages :
         (Live /\ staged /\ OnMessage(c, m)) => localSsProfile' = localSsProfile]_vars

\* C8: the secure tunnel's profile in the status held is one of the four
\* known profiles or absent.
C8_ProfileKnownOrAbsent ==
    status.kind = "ok" => status.ss.profile \in PROFILES \cup {NoProfile}

\* C9: every close event of a connection adds exactly one reconnect timer,
\* with the fixed delay and for that connection's url, whatever is pending.
C9_CloseSchedulesOne ==
    [][\A c \in Sockets :
         (DispatchClose(c) \/ ServerClose(c)) =>
            timers' = timers (+) SetToBag({[url |-> c.w.url, delay |-> ReconnectDelay]})]_vars

C9_Witness ==
    /\ wsRef.state = "CLOSED"
    /\ BagCardinality(timers) >= 2

\* C10: while the view is mounted, a closed channel is eventually followed
\* by a new connection attempt.
C10_NoTerminalFailure ==
    (Live /\ wsRef.state \in {"FAILING", "CLOSED"}) ~> (~Live \/ wsRef.state = "CONNECTING")

C10_Witness ==
    /\ Live
    /\ wsRef.state = "CLOSED"
    /\ error = FetchError
    /\ manualReconnects = MaxManualReconnects

\* C11: the keep-alive callback sends no token on a connection that is not
\* OPEN (it changes nothing then), and the close event of a connection, on
\* whatever path it comes, leaves that connection without its interval: a
\* connection that is CLOSED has none.
C11_KeepAliveOnlyWhileOpen ==
    /\ [](\A c \in Sockets : c.w.state = "CLOSED" => ~c.w.ping)
    /\ [][\A c \in Sockets :
            /\ (PingFire(c) /\ c.w.state # "OPEN") => UNCHANGED <<wsRef, old>>
            /\ ((DispatchClose(c) \/ ServerClose(c)) /\ c.ref) => ~wsRef'.ping
            /\ ((DispatchClose(c) \/ ServerClose(c)) /\ ~c.ref) =>
                   CopiesIn(c.w, old') < CopiesIn(c.w, old)]_vars

C11_Witness ==
    /\ wsRef.state = "CLOSED" /\ wsRef.sent /\ ~wsRef.ping
    /\ \E o \in BagToSet(old) : o.state = "CLOSING" /\ o.ping /\ ~o.sent

\* C12: a connection that is OPEN has its keep-alive interval set, and one
\* that stays open until the interval fires has a liveness token sent on it.
C12_KeepAliveWhileOpen ==
    /\ [](\A c \in Sockets : c.w.state = "OPEN" => c.w.ping)
    /\ (wsRef.state = "OPEN") ~> (wsRef.state # "OPEN" \/ wsRef.sent)

C12_Witness == Live /\ wsRef.state = "OPEN" /\ wsRef.ping /\ wsRef.sent

\* C13: once the view is torn down no reconnect timer fires: no connection
\* attempt is started, so wsRef, which the teardown closed, never holds a
\* connection that is CONNECTING or OPEN again.
C13_NoReconnectAfterTeardown ==
    [][mounted = "unmounted" =>
         /\ \A t \in BagToSet(timers) : ~TimerFire(t)
         /\ wsRef'.state \notin {"CONNECTING", "OPEN"}]_vars

\* C14: tearing the view down leaves the apply requests in flight as they
\* are, and a response (success or failure) that settles one of them after
\* the teardown changes neither the status, nor the error, nor isSubmitting.
C14_LateResponseDiscarded ==
    [][/\ Unmount => inflight' = inflight
       /\ \A r \in inflight, resp \in Responses :
            (mounted = "unmounted" /\ Resolve(r, resp)) =>
                /\ UNCHANGED <<status, error, isSubmitting>>
                /\ inflight' = inflight \ {r}]_vars

C14_Witness ==
    /\ mounted = "unmounted"
    /\ \E r \in inflight : r.kind = "apply"
    /\ status = Null /\ error = NoError /\ ~isSubmitting

\* C15: toggles are serialized, so the last one wins: a toggle is accepted
\* only when no request is outstanding, which leaves its own request, carrying
\* the flag the view now shows, as the only one in flight (requests reach the
\* server in the order of the clicks); and no response changes the status, so
\* none reverts the flag.
C15_LastToggleWins ==
    [][/\ \A i \in Ifaces : (Toggle(i) /\ ~Falsy(status)) =>
            /\ inflight = {}
            /\ inflight' = {[kind |-> "toggle", intent |-> ToggleIntent(i, status'[i].active)]}
       /\ \A r \in inflight, resp \in Responses : Resolve(r, resp) => status' = status]_vars

C15_Witness ==
    /\ Live /\ ToggleDisabled /\ error = "Failed to fetch"
    /\ status.kind = "ok" /\ ~status.wg0.active
    /\ inflight = {[kind |-> "toggle", intent |-> ToggleIntent("wg0", FALSE)]}

\* C16: while a request of the apply control is outstanding and the view
\* shows the controls, either tunnel can be toggled.
C16_ToggleNotBlockedByApply ==
    (Live /\ ~MidTask /\ ~Falsy(status) /\ \E r \in inflight : r.kind = "apply") =>
        \A i \in Ifaces : ~ToggleDisabled /\ ENABLED Toggle(i)

\* C17: at most one request of the apply control is in flight at any time,
\* and the control is disabled for as long as one is outstanding in the view
\* that sent it.
C17_ApplyNeverOverlaps ==
    /\ [](/\ Cardinality({r \in inflight : r.kind = "apply"}) <= 1
          /\ (Live /\ \E r \in inflight : r.kind = "apply") => ApplyDisabled)
    /\ [][(HandleApply /\ ~Falsy(status)) =>
            /\ ~\E r \in inflight : r.kind = "apply"
            /\ \E r \in inflight' : r.kind = "apply"]_vars

C17_Witness ==
    /\ Live /\ ApplyDisabled /\ error = NoError /\ localSsProfile = "th"
    /\ inflight = {[kind |-> "apply", intent |-> ApplyIntent(status, "th")]}

\* C18: handleApply with the status present sends one apply request, whose
\* wg0_enabled and ss_enabled are the local active flags of the two tunnels
\* and whose ss_profile is the profile selected in the view.
C18_ApplySendsLocalState ==
    [][(HandleApply /\ ~Falsy(status)) =>
         inflight' = inflight \cup
            {[kind |-> "apply",
              intent |-> [wg0_enabled |-> {status.wg0.active},
                          ss_enabled |-> {status.ss.active},
                          ss_profile |-> {localSsProfile}]]}]_vars

C18_Witness ==
    /\ Live /\ status.kind = "ok" /\ status.wg0.active /\ ~status.ss.active
    /\ status.ss.profile = "hk" /\ localSsProfile = "jp" /\ ~staged
    /\ inflight = {[kind |-> "apply",
                    intent |-> [wg0_enabled |-> {TRUE}, ss_enabled |-> {FALSE},
                                ss_profile |-> {"jp"}]]}

\* C19: when an apply request succeeds in the mounted view, the status the
\* view holds afterwards agrees with what the response confirms: every field
\* the request gave has the requested value, the profile of an apply-control
\* request included.
C19_ResponseReconciles ==
    [][\A r \in inflight, resp \in Responses :
         (Live /\ ~Falsy(status) /\ Resolve(r, resp) /\ Request(resp).ok) =>
            /\ r.intent.wg0_enabled \in {Omitted, Given(status'.wg0.active)}
            /\ r.intent.ss_enabled \in {Omitted, Given(status'.ss.active)}
            /\ r.intent.ss_profile \in {Omitted, Given(status'.ss.profile)}]_vars

\* C20: a push message that is not decodable, or is tagged status without a
\* payload that has the tunnel records, changes neither the status the view
\* holds (an absent status stays absent), nor the selected profile, nor the
\* error.
C20_MalformedIgnored ==
    [][\A c \in Sockets, m \in Messages :
         (Live /\ OnMessage(c, m) /\ (~m.json \/ (m.type = "status" /\ m.data.kind # "ok"))) =>
            /\ status' = status \/ (Falsy(status) /\ Falsy(status'))
            /\ UNCHANGED <<localSsProfile, error>>]_vars

\* C21: no sequence of network events leaves the view unable to render: a
\* status that is present has both tunnel records, and the view is never torn
\* down by a render that throws.
C21_AlwaysRenderable ==
    /\ ~Falsy(status) => status.kind = "ok"
    /\ mounted # "crashed"

\* C22: a request answered with a status that is not ok fails, and the
\* message it fails with, which the view shows, is the detail of the error
\* body if it has one and otherwise the generic message with the status code.
C22_ErrorMessage ==
    [][\A r \in inflight, resp \in Responses :
         (Live /\ Resolve(r, resp) /\ resp.net /\ ~Ok(resp.code)) =>
            /\ ~Request(resp).ok
            /\ error' = IF resp.body = "detail" THEN "detail"
                        ELSE "API request failed with status " \o ToString(resp.code)]_vars

\* C23: a request that gets no response and one that gets a response that is
\* not ok both throw, never return: the caller's catch block runs in either
\* case and sets the error to the message thrown.
C23_SingleFailPath ==
    [][\A r \in inflight, resp \in Responses :
         (Live /\ Resolve(r, resp) /\ (~resp.net \/ ~Ok(resp.code))) =>
            /\ ~Request(resp).ok
            /\ error' # NoError
            /\ error' = Caught(r.kind, Request(resp).message)]_vars

C23_Witness ==
    /\ Live /\ inflight = {} /\ ~isSubmitting
    /\ error = "API request failed with status 500"

\* C24: the "retry" button, whether the current connection is CONNECTING or
\* OPEN, closes it (it is left CLOSING, its close event still to come) and in
\* the same step makes wsRef a new connection attempt to the current baseUrl;
\* no timer is awaited or consumed.
C24_ManualReconnectImmediate ==
    [][ManualReconnect =>
         /\ wsRef' = NewSocket(baseUrl)
         /\ timers' = timers
         /\ wsRef.state \in {"CONNECTING", "OPEN"} =>
              CopiesIn([wsRef EXCEPT !.state = "CLOSING"], old') =
                 CopiesIn([wsRef EXCEPT !.state = "CLOSING"], old) + 1]_vars

C24_Witness ==
    /\ Live /\ manualReconnects = 1 /\ urlChanges = 0 /\ timers = EmptyBag
    /\ wsRef.state = "CONNECTING"
    /\ \E o \in BagToSet(old) : o.state = "CLOSING" /\ o.ping

\* C25: the request of a toggle gives only the enabled field of the toggled
\* tunnel, with the negation of the active flag it had before the click, and
\* the click changes locally neither the other tunnel's active flag, nor the
\* profile of ss, nor the selected profile.
C25_ToggleFrame ==
    [][\A i \in Ifaces : (Toggle(i) /\ ~Falsy(status)) =>
         /\ inflight' \ inflight =
              {[kind |-> "toggle",
                intent |-> [wg0_enabled |-> IF i = "wg0" THEN {~status.wg0.active} ELSE {},
                            ss_enabled |-> IF i = "ss" THEN {~status.ss.active} ELSE {},
                            ss_profile |-> {}]]}
         /\ \A j \in Ifaces \ {i} : status'[j].active = status[j].active
         /\ status'.ss.profile = status.ss.profile
         /\ localSsProfile' = localSsProfile]_vars

C25_Witness ==
    /\ Live /\ status.kind = "ok" /\ ~status.wg0.active /\ status.ss.active
    /\ status.ss.profile = "jp" /\ localSsProfile = "th"
    /\ inflight = {[kind |-> "toggle",
                    intent |-> [wg0_enabled |-> {FALSE}, ss_enabled |-> {}, ss_profile |-> {}]]}

\* C26: picking a profile in the selector makes it the selected profile and
\* does nothing else: no request is sent and the status, with the profile of
\* ss in it, the error and isSubmitting stay as they are.
C26_SelectFrame ==
    [][\A p \in SelectProfiles : SelectProfile(p) =>
         /\ localSsProfile' = p
         /\ UNCHANGED <<status, inflight, isSubmitting, error, isInitialLoading>>]_vars

C26_Witness ==
    /\ Live /\ staged /\ localSsProfile = "th" /\ inflight = {}
    /\ status.kind = "ok" /\ status.ss.profile = "hk" /\ error = NoError

\* C27: whenever a connection of the mounted view becomes OPEN, the error the
\* view shows is absent after the step.
C27_OpenClearsError ==
    [][\A c \in Sockets : (Live /\ OnOpen(c)) =>
         /\ c.w.state = "CONNECTING" /\ wsRef'.state = "OPEN"
         /\ error' = NoError]_vars

C27_Witness ==
    /\ Live /\ wsRef.state = "OPEN" /\ error = NoError
    /\ ~isInitialLoading /\ status = Null

\* C28: the error event of a connection that was CONNECTING or OPEN sets the
\* error the view shows and leaves the channel to the close event that
\* follows: the handler calls no close(), clears no interval, schedules no
\* timer and creates no connection; a timer is scheduled only by a close event.
C28_ErrorOnlySurfaces ==
    [][/\ \A c \in Sockets :
            (Live /\ OnError(c) /\ c.w.state \in {"CONNECTING", "OPEN"}) =>
               /\ error' = FetchError
               /\ timers' = timers
               /\ c.ref => (wsRef' = [wsRef EXCEPT !.state = "FAILING"] /\ old' = old)
               /\ ~c.ref => wsRef' = wsRef
       /\ BagCardinality(timers') > BagCardinality(timers) =>
            \E c \in Sockets : DispatchClose(c) \/ ServerClose(c)]_vars

C28_Witness ==
    /\ Live /\ wsRef.state = "FAILING" /\ wsRef.ping
    /\ error = FetchError /\ timers = EmptyBag

\* C29: a push message that decodes and whose tag is not status changes
\* neither the status, nor the selected profile, nor the error, nor
\* isInitialLoading.
C29_OtherTagIgnored ==
    [][\A c \in Sockets, m \in Messages :
         (Live /\ OnMessage(c, m) /\ m.json /\ m.type # "status") =>
            UNCHANGED <<status, localSsProfile, error, isInitialLoading>>]_vars

C29_Witness ==
    /\ Live /\ wsRef.state = "OPEN" /\ ~isInitialLoading
    /\ status.kind = "ok" /\ localSsProfile = "jp" /\ error = "detail"

\* C30: the status is absent when the view starts and becomes present only
\* by a status message; while it is absent, a click on a toggle or on the
\* apply button sends no request and changes neither the status, nor the
\* error, nor isSubmitting.
C30_NoOpWhileAbsent ==
    /\ [](mounted = "init" => status = Null)
    /\ [][/\ (status.kind \in {"null", "undefined"} /\ status'.kind \notin {"null", "undefined"}) =>
               \E c \in Sockets, m \in Messages : OnMessage(c, m) /\ m.json /\ m.type = "status"
          /\ (status.kind \in {"null", "undefined"} /\ (HandleApply \/ \E i \in Ifaces : Toggle(i))) =>
               UNCHANGED <<status, error, isSubmitting, inflight>>]_vars

C30_Witness ==
    /\ Live /\ ~MidTask /\ ~Spinner /\ status = Null
    /\ error = FetchError /\ ~isSubmitting /\ inflight = {}

\* C31: at most one WebSocket is CONNECTING or OPEN at any time: none but the
\* one wsRef points to, since every connection attempt closes the one held
\* before it creates the next.
C31_OneLiveConnection ==
    /\ \A o \in BagToSet(old) : o.state \notin {"CONNECTING", "OPEN"}
    /\ Cardinality({c \in Sockets : c.w.state \in {"CONNECTING", "OPEN"}}) <= 1

C31_Witness ==
    /\ Live /\ wsRef.state = "OPEN" /\ BagCardinality(old) >= 2
    /\ manualReconnects = 1 /\ urlChanges = 1

\* C32: a reconnect timer that fires never closes a connection that is
\* CONNECTING or OPEN: the connection wsRef points to when connectWebSocket
\* runs from a timer is neither.
C32_TimerSparesLiveConnection ==
    [][\A t \in BagToSet(timers) :
         TimerFire(t) => wsRef.state \notin {"CONNECTING", "OPEN"}]_vars

\* C33: if from some point on no connection fails or is closed by the
\* server, every attempt is accepted and the user presses "retry" no more
\* (the baseUrl never changing), then from some point on the connection of
\* the mounted view is OPEN and stays OPEN.
C33_EventuallyStaysOpen ==
    (/\ <>[][\A c \in Sockets : ~ServerClose(c) /\ ~OnError(c)]_vars
     /\ <>[][~ManualReconnect]_vars
     /\ [](urlChanges = 0)
     /\ WF_vars(\E c \in Sockets : OnOpen(c)))
    => <>[](~Live \/ wsRef.state = "OPEN")

\* C34: while the view is mounted, at most one reconnect timer is pending at
\* any time.
C34_OneTimerPending == Live => BagCardinality(timers) <= 1

\* C35: in the mounted view isSubmitting is TRUE exactly while a request of a
\* toggle or of the apply button is outstanding, and the step in which a
\* request settles, with success or with failure, leaves it FALSE.
C35_SubmittingIffInFlight ==
    /\ [](Live => (isSubmitting <=> inflight # {}))
    /\ [][\A r \in inflight, resp \in Responses :
            (Live /\ Resolve(r, resp)) => (isSubmitting /\ ~isSubmitting')]_vars

C35_Witness ==
    /\ Live /\ ~isSubmitting /\ inflight = {} /\ status.kind = "ok"
    /\ error = "Unexpected token"

\* C36: a status that a snapshot has populated does not become absent again
\* as long as the view stays mounted, whatever is received or clicked.
C36_StatusStaysPresent ==
    [][(Live /\ status.kind = "ok" /\ mounted' = "mounted") =>
          status'.kind \notin {"null", "undefined"}]_vars

\* C37: when a request of a toggle or of the apply button succeeds, the view
\* shows no error of an earlier failed request afterwards: the error is
\* absent, or the connection error of the channel.
C37_SuccessClearsError ==
    [][\A r \in inflight, resp \in Responses :
         (Live /\ Resolve(r, resp) /\ Request(resp).ok) =>
            error' \in {NoError, FetchError}]_vars

\* C38: the error of a failed request is not removed by a connection becoming
\* OPEN while a tunnel still shows a toggled flag no snapshot has confirmed.
C38_RequestErrorSurvivesOpen ==
    [][\A c \in Sockets :
         (Live /\ OnOpen(c) /\ error \notin {NoError, FetchError} /\ unconfirmed # {}) =>
            error' = error]_vars

\* C39: every connection attempt of the mounted view targets the baseUrl of
\* the current render, so the connection wsRef holds is never one to a url
\* the view has left.
C39_AttemptsTargetCurrentUrl ==
    /\ [](Live /\ wsRef.state \in {"CONNECTING", "OPEN"} => wsRef.url = baseUrl)
    /\ [][(Live /\ mounted' = "mounted" /\ wsRef' # wsRef /\ wsRef'.state = "CONNECTING") =>
             wsRef'.url = baseUrl']_vars
====
